---- MODULE Spec2Model ----
(***************************************************************************)
(* A model of httpx/_multipart.py: the multipart/form-data encoder.        *)
(*                                                                         *)
(* Text (Python str) is a sequence of code points, bytes a sequence of     *)
(* numbers in 0..255.  An optional value (Python's None) is a sequence of  *)
(* length 0 or 1: None is <<>> and the value x is <<x>>.                   *)
(***************************************************************************)
EXTENDS Integers, Sequences, FiniteSets, TLC

VARIABLES
    value,       \* _format_form_param: the str handed in as `value`
    param,       \* _format_form_param: the bytes returned (None before the call)
    data,        \* MultipartStream.__init__: the `data` mapping, in iteration order
    files,       \* MultipartStream.__init__: the `files` list
    ctor,        \* position of _iter_fields: [at, i, j], at in data/files/done/raised
    ctorLog,     \* per FileField.__init__ call: the arguments as they were at the call
    callerDicts, \* the header dicts as the caller built them (never written)
    boundary,    \* MultipartStream.boundary
    fields,      \* per message: MultipartStream.fields, with each field's caches
    dicts,       \* per message: the heap of header dicts (caller's and own)
    srcs,        \* per message: the heap of file sources (content, position)
    pc,          \* per message: position of the chunk generator
    out,         \* per message: the chunks the generator has yielded so far
    lenResult,   \* per message: what get_content_length() last returned
    hdrResult,   \* per message: what get_headers() last returned
    renders,     \* per field: what the render calls returned, in call order
    mutated      \* per field: whether its source was mutated after a render

vars == <<value, param, data, files, ctor, ctorLog, callerDicts, boundary, fields,
          dicts, srcs, pc, out, lenResult, hdrResult, renders, mutated>>

escVars == <<value, param>>
ctorVars == <<data, files, ctor, ctorLog, callerDicts>>
msgVars == <<boundary, fields, dicts, srcs>>
runVars == <<pc, out, lenResult, hdrResult>>
cacheVars == <<renders, mutated>>

None == <<>>
Some(x) == <<x>>

\* ------------------------------------------------------------------ bounds

MaxStrLen == 3
MaxData == 2
MaxList == 2
MaxFiles == 2
MaxFields == 2
MaxContent == 3
MaxRenders == 2
\* FileField.CHUNK_SIZE, 64 KiB in the source, scaled to the files of the model.
CHUNK_SIZE == 2

\* ------------------------------------------------------ text and bytes

RECURSIVE Flatten(_)
Flatten(ss) == IF ss = <<>> THEN <<>> ELSE Head(ss) \o Flatten(Tail(ss))

RECURSIVE StringsUpTo(_, _)
StringsUpTo(alphabet, n) ==
    IF n = 0 THEN {<<>>}
    ELSE LET shorter == StringsUpTo(alphabet, n - 1)
         IN shorter \cup {Append(s, c) : s \in shorter, c \in alphabet}

\* str.encode(): UTF-8, for code points below 0x800.
EncodeChar(c) ==
    IF c < 128 THEN <<c>> ELSE <<192 + (c \div 64), 128 + (c % 64)>>

Encode(s) == Flatten([k \in 1..Len(s) |-> EncodeChar(s[k])])

\* _utils.to_bytes: text is encoded as UTF-8, bytes pass through.
to_bytes(v) == IF v.t = "str" THEN Encode(v.v) ELSE v.v

\* str.lower(), on ASCII letters.
Lower(s) == [k \in 1..Len(s) |-> IF s[k] >= 65 /\ s[k] <= 90 THEN s[k] + 32 ELSE s[k]]

\* Python's `sub in s` on str.
Contains(sub, s) ==
    \E k \in 0..(Len(s) - Len(sub)) : SubSeq(s, k + 1, k + Len(sub)) = sub

EndsWith(s, suffix) ==
    Len(s) >= Len(suffix) /\ SubSeq(s, Len(s) - Len(suffix) + 1, Len(s)) = suffix

\* str(n) for n >= 0: the decimal digits.
RECURSIVE IntToStr(_)
IntToStr(n) ==
    IF n < 10 THEN <<48 + n>> ELSE Append(IntToStr(n \div 10), 48 + (n % 10))

\* ------------------------------------------------- _format_form_param

DQUOTE == 34
BACKSLASH == 92
ESC == 27
LAST_CONTROL == 31

\* "{:02X}": one uppercase hexadecimal digit.
HexDigit(n) == IF n < 10 THEN 48 + n ELSE 55 + n

\* The uppercase two-digit "%XX" of a code point.
PercentCode(c) == <<37, HexDigit(c \div 16), HexDigit(c % 16)>>

\* A faulty variant: "%{:X}" for "%{:02X}", no zero padding.
Replacement_Unpadded(c) ==
    IF c = DQUOTE THEN <<37, 50, 50>>
    ELSE IF c = BACKSLASH THEN <<BACKSLASH, BACKSLASH>>
    ELSE IF c <= LAST_CONTROL /\ c # ESC
         THEN (IF c < 16 THEN <<37, HexDigit(c)>> ELSE PercentCode(c))
    ELSE <<c>>

\* _HTML5_FORM_ENCODING_REPLACEMENTS, and the identity on what the regex does
\* not match.
Replacement(c) ==
    IF c = DQUOTE THEN <<37, 50, 50>>
    ELSE IF c = BACKSLASH THEN <<BACKSLASH, BACKSLASH>>
    ELSE IF c <= LAST_CONTROL /\ c # ESC THEN PercentCode(c)
    ELSE <<c>>

\* _HTML5_FORM_ENCODING_RE.sub(replacer, value)
Escape(s) == Flatten([k \in 1..Len(s) |-> Replacement(s[k])])

\* f'{name}="{value}"'.encode()
_format_form_param(name, v) == Encode(name \o <<61, DQUOTE>> \o Escape(v) \o <<DQUOTE>>)

NAME == <<110, 97, 109, 101>>                            \* "name"
FILENAME == <<102, 105, 108, 101, 110, 97, 109, 101>>    \* "filename"

\* ------------------------------------------------------------ sources
(* A file source, as held in a message's heap `srcs`:                      *)
(*   kind     "bytes" | "str": in-memory content (isinstance (str, bytes)) *)
(*            "reader": an object with read(), maybe seek()/tell()         *)
(*            "async":  an AsyncIterable of chunks                         *)
(*   cls      the class the isinstance checks of FileField.__init__ see    *)
(*   text     read() returns str rather than bytes                         *)
(*   seekable seek()/tell() work (else seek raises UnsupportedOperation)   *)
(*   content  the bytes (or, in text mode, the code points) read() gives    *)
(*   chunks   for "async": the chunks it produces, each [t, v]             *)
(*   pos      the read position (for "async": chunks already consumed)     *)
(*   name     the object's `name` attribute, or None                       *)

IsInMemory(src) == src.kind \in {"bytes", "str"}
IsAsyncIterable(src) == src.kind = "async"

\* file.read(n): the chunk returned and the source afterwards.
Read(src, n) ==
    LET last == IF src.pos + n < Len(src.content) THEN src.pos + n ELSE Len(src.content)
    IN [chunk |-> [t |-> IF src.text THEN "str" ELSE "bytes",
                   v |-> SubSeq(src.content, src.pos + 1, last)],
        src |-> [src EXCEPT !.pos = last]]

\* _utils.peek_filelike_length: the cheap size probe, end position minus the
\* current position, leaving the position where it was; None when the source
\* cannot be probed.
peek_filelike_length(src) ==
    IF src.kind = "reader" /\ src.seekable
    THEN Some(Len(src.content) - src.pos)
    ELSE None

\* ------------------------------------------------------------ DataField

\* _utils.primitive_value_to_str: None is "", a number its decimal text.
primitive_value_to_str(v) ==
    IF v.t = "none" THEN [t |-> "str", v |-> <<>>]
    ELSE IF v.t = "int" THEN [t |-> "str", v |-> IntToStr(v.n)]
    ELSE v

\* DataField.__init__: [ok, field]; ok is FALSE where it raises TypeError.
\* (Names are str in every input of this model.)
DataField(name, v) ==
    IF v.t \notin {"none", "str", "bytes", "int"}
    THEN [ok |-> FALSE]
    ELSE [ok |-> TRUE,
          field |-> [type |-> "DataField", name |-> name,
                     value |-> IF v.t = "bytes" THEN v ELSE primitive_value_to_str(v),
                     headers_ |-> None, data_ |-> None]]

CONTENT_DISPOSITION ==    \* b"Content-Disposition: form-data; "
    <<67, 111, 110, 116, 101, 110, 116, 45, 68, 105, 115, 112, 111, 115, 105, 116,
      105, 111, 110, 58, 32, 102, 111, 114, 109, 45, 100, 97, 116, 97, 59, 32>>
CRLF == <<13, 10>>

\* DataField.render_headers: the field afterwards (its cache filled); the bytes
\* returned are its headers_.
DataRenderHeaders(f) ==
    IF f.headers_ = None
    THEN [f EXCEPT !.headers_ =
            Some(CONTENT_DISPOSITION \o _format_form_param(NAME, f.name) \o CRLF \o CRLF)]
    ELSE f

\* A faulty variant: render_data without the hasattr check, recomputed at every call.
DataRenderData_Uncached(f) == [f EXCEPT !.data_ = Some(to_bytes(f.value))]

\* DataField.render_data: the field afterwards; the bytes returned are its data_.
DataRenderData(f) ==
    IF f.data_ = None THEN [f EXCEPT !.data_ = Some(to_bytes(f.value))] ELSE f

\* ------------------------------------------------------------ FileField

TEXT_PLAIN == <<116, 101, 120, 116, 47, 112, 108, 97, 105, 110>>
IMAGE_PNG == <<105, 109, 97, 103, 101, 47, 112, 110, 103>>
OCTET_STREAM ==    \* "application/octet-stream"
    <<97, 112, 112, 108, 105, 99, 97, 116, 105, 111, 110, 47, 111, 99, 116, 101,
      116, 45, 115, 116, 114, 101, 97, 109>>
CONTENT_TYPE == <<67, 111, 110, 116, 101, 110, 116, 45, 84, 121, 112, 101>>
CONTENT_TYPE_LOWER == <<99, 111, 110, 116, 101, 110, 116, 45, 116, 121, 112, 101>>
UPLOAD == <<117, 112, 108, 111, 97, 100>>

\* mimetypes.guess_type(filename)[0]: the standard table, by extension.
guess_type(filename) ==
    IF EndsWith(filename, <<46, 116, 120, 116>>) THEN Some(TEXT_PLAIN)
    ELSE IF EndsWith(filename, <<46, 112, 110, 103>>) THEN Some(IMAGE_PNG)
    ELSE None

\* _guess_content_type; filename is None, or Some(str).
_guess_content_type(filename) ==
    IF filename # None /\ filename[1] # <<>>
    THEN (IF guess_type(filename[1]) # None THEN guess_type(filename[1])
          ELSE Some(OCTET_STREAM))
    ELSE None

\* Path(s).name: what follows the last "/".
RECURSIVE Basename(_)
Basename(s) ==
    IF \E k \in 1..Len(s) : s[k] = 47
    THEN Basename(Tail(s))
    ELSE s

\* dict.__setitem__ on an insertion-ordered dict.
DictSet(d, key, val) ==
    IF \E k \in 1..Len(d) : d[k][1] = key
    THEN [k \in 1..Len(d) |-> IF d[k][1] = key THEN <<key, val>> ELSE d[k]]
    ELSE Append(d, <<key, val>>)

\* The dict FileField.__init__ calls `headers`: a fresh {} (lines 128), or, for
\* the 4-tuple, the caller's own dict object (line 144).
HeadersDict(fv, ds) ==
    IF fv.shape = "t4"
    THEN [id |-> fv.headers, dicts |-> ds]
    ELSE [id |-> Len(ds) + 1, dicts |-> Append(ds, <<>>)]

\* any("content-type" in key.lower() for key in headers)
HasContentTypeHeader(d) ==
    \E k \in 1..Len(d) : Contains(CONTENT_TYPE_LOWER, Lower(d[k][1]))

\* FileField.__init__(name, fv) in a heap of dicts `ds` and of sources `ss`:
\* [ok, field, dicts]; ok is FALSE where it raises TypeError (the dicts are
\* written before that).  fv is the `value` argument:
\*   shape "t2" | "t3" | "t4" (the tuple's length) | "bare";
\*   filename, content_type: None or Some(str); file: a source; headers: a dict.
FileField(name, fv, ds, ss) ==
    LET filename == IF fv.shape = "bare"
                    THEN Some(Basename(IF ss[fv.file].name = None THEN UPLOAD
                                       ELSE ss[fv.file].name[1]))
                    ELSE fv.filename
        given == IF fv.shape \in {"t3", "t4"} THEN fv.content_type ELSE None
        content_type == IF given = None THEN _guess_content_type(filename) ELSE given
        h == HeadersDict(fv, ds)
        has_content_type_header == HasContentTypeHeader(h.dicts[h.id])
        ds2 == IF content_type # None /\ ~has_content_type_header
               THEN [h.dicts EXCEPT ![h.id] = DictSet(@, CONTENT_TYPE, content_type[1])]
               ELSE h.dicts
    IN IF ss[fv.file].cls \in {"StringIO", "TextIOWrapper"}
       THEN [ok |-> FALSE, dicts |-> ds2]
       ELSE [ok |-> TRUE, dicts |-> ds2,
             field |-> [type |-> "FileField", name |-> name, filename |-> filename,
                        file |-> fv.file, headers |-> h.id, headers_ |-> None]]

\* FileField.render_headers: the field afterwards (its cache filled), `d` being
\* the contents of the dict self.headers.
FileRenderHeaders(f, d) ==
    IF f.headers_ = None
    THEN [f EXCEPT !.headers_ = Some(
            CONTENT_DISPOSITION
            \o _format_form_param(NAME, f.name)
            \o (IF f.filename # None /\ f.filename[1] # <<>>
                THEN <<59, 32>> \o _format_form_param(FILENAME, f.filename[1])
                ELSE <<>>)
            \o Flatten([k \in 1..Len(d) |->
                          Encode(CRLF \o d[k][1] \o <<58, 32>>) \o Encode(d[k][2])])
            \o CRLF \o CRLF)]
    ELSE f

\* render_headers of either field class.
RenderHeaders(f, ds) ==
    IF f.type = "DataField" THEN DataRenderHeaders(f) ELSE FileRenderHeaders(f, ds[f.headers])

\* ------------------------------------------- MultipartStream._iter_fields
(* _iter_fields is a generator that list() drives to its end.  Its state   *)
(* is `c`: [at, i, j] (the loop it is in, the entry, the element of a      *)
(* list-valued entry), with the fields yielded so far, the dict heap and   *)
(* the log of FileField calls.  `d` is the data mapping as its items()     *)
(* in iteration order, <<name, value>>; `fs` is the file list, each item   *)
(* [name, shape, filename, content_type, headers, src], its source being   *)
(* the object at the same index of the source heap `ss`.                   *)

\* The next item of `for name, value in data.items()` / `for item in value`
\* at or after entry i, element j; or the start of the file loop.
RECURSIVE DataPos(_, _, _)
DataPos(d, i, j) ==
    IF i > Len(d) THEN [at |-> "files", i |-> 1, j |-> 1]
    ELSE IF d[i][2].t = "list"
         THEN (IF j <= Len(d[i][2].items) THEN [at |-> "data", i |-> i, j |-> j]
               ELSE DataPos(d, i + 1, 1))
    ELSE IF j = 1 THEN [at |-> "data", i |-> i, j |-> 1]
    ELSE DataPos(d, i + 1, 1)

FileValue(fs, k) ==
    [shape |-> fs[k].shape, filename |-> fs[k].filename,
     content_type |-> fs[k].content_type, headers |-> fs[k].headers, file |-> k]

\* A faulty variant: the file fields are yielded ahead of the data fields already there.
YieldField_FilesFirst(flds, f) ==
    IF f.type = "FileField" THEN <<f>> \o flds ELSE Append(flds, f)

\* `yield`, as list() collects it.
YieldField(flds, f) == Append(flds, f)

\* One next() of _iter_fields: up to the next yield, the exception, or the end.
IterFieldsStep(st, d, fs, ss) ==
    LET p == IF st.c.at = "data" THEN DataPos(d, st.c.i, st.c.j) ELSE st.c
    IN IF p.at = "data"
       THEN LET v == d[p.i][2]
                r == DataField(d[p.i][1], IF v.t = "list" THEN v.items[p.j] ELSE v)
            IN IF r.ok
               THEN [st EXCEPT !.c = [at |-> "data", i |-> p.i, j |-> p.j + 1],
                               !.fields = YieldField(@, r.field)]
               ELSE [st EXCEPT !.c = [at |-> "raised", i |-> p.i, j |-> p.j]]
       ELSE IF p.i > Len(fs)
       THEN [st EXCEPT !.c = [at |-> "done", i |-> p.i, j |-> 1]]
       ELSE LET fv == FileValue(fs, p.i)
                r == FileField(fs[p.i].name, fv, st.dicts, ss)
                entry == [name |-> fs[p.i].name, fv |-> fv, ok |-> r.ok,
                          filename |-> IF r.ok THEN r.field.filename ELSE None,
                          before |-> IF fv.shape = "t4" THEN st.dicts[fv.headers] ELSE <<>>,
                          after |-> IF r.ok THEN r.dicts[r.field.headers] ELSE <<>>]
            IN IF r.ok
               THEN [c |-> [at |-> "files", i |-> p.i + 1, j |-> 1],
                     fields |-> YieldField(st.fields, r.field),
                     dicts |-> r.dicts, log |-> Append(st.log, entry)]
               ELSE [c |-> [at |-> "raised", i |-> p.i, j |-> 1],
                     fields |-> st.fields,
                     dicts |-> r.dicts, log |-> Append(st.log, entry)]

\* list(self._iter_fields(data, files)): the generator driven to its end.
RECURSIVE ListIterFields(_, _, _, _)
ListIterFields(st, d, fs, ss) ==
    IF st.c.at \in {"done", "raised"} THEN st
    ELSE ListIterFields(IterFieldsStep(st, d, fs, ss), d, fs, ss)

CtorStart(ds) ==
    [c |-> [at |-> "data", i |-> 1, j |-> 1], fields |-> <<>>, dicts |-> ds, log |-> <<>>]

\* -------------------------------------------------------------- inputs

Inst == {1, 2}

TEXT_HTML == <<116, 101, 120, 116, 47, 104, 116, 109, 108>>
X_CONTENT_TYPE_OPTIONS ==
    <<88, 45, 67, 111, 110, 116, 101, 110, 116, 45, 84, 121, 112, 101, 45, 79, 112,
      116, 105, 111, 110, 115>>
X_CUSTOM == <<88, 45, 67, 117, 115, 116, 111, 109>>
NOSNIFF == <<110, 111, 115, 110, 105, 102, 102>>
A_TXT == <<97, 46, 116, 120, 116>>
B_PNG == <<98, 46, 112, 110, 103>>

Str(s) == [t |-> "str", v |-> s]
Bytes(b) == [t |-> "bytes", v |-> b]

\* Sources.
MemBytes(b) ==
    [kind |-> "bytes", cls |-> "bytes", text |-> FALSE, seekable |-> FALSE,
     content |-> b, chunks |-> <<>>, pos |-> 0, name |-> None]
MemStr(s) ==
    [kind |-> "str", cls |-> "str", text |-> TRUE, seekable |-> FALSE,
     content |-> s, chunks |-> <<>>, pos |-> 0, name |-> None]
Reader(cls, text, seekable, content, pos, name) ==
    [kind |-> "reader", cls |-> cls, text |-> text, seekable |-> seekable,
     content |-> content, chunks |-> <<>>, pos |-> pos, name |-> name]
AsyncSource(chunks) ==
    [kind |-> "async", cls |-> "AsyncIterable", text |-> FALSE, seekable |-> FALSE,
     content |-> <<>>, chunks |-> chunks, pos |-> 0, name |-> None]

FileItem(name, shape, filename, content_type, headers, src) ==
    [name |-> name, shape |-> shape, filename |-> filename,
     content_type |-> content_type, headers |-> headers, src |-> src]

\* The k-th field name: "a", "b", ...
FieldName(k) == <<96 + k>>

\* A list value of n distinguishable str items: ["x1", ...].
ListValue(n) == [t |-> "list", items |-> [k \in 1..n |-> Str(<<120, 48 + k>>)]]

DataValues ==
    {Str(<<120>>), [t |-> "int", n |-> 12], [t |-> "none"], [t |-> "dict"]}
    \cup {ListValue(n) : n \in 0..MaxList}

\* Mappings of up to n entries; the k-th key is FieldName(k).
DataMappings(n) ==
    UNION {{[k \in 1..m |-> <<FieldName(k), vs[k]>>] : vs \in [1..m -> DataValues]}
           : m \in 0..n}

\* The header dicts a caller passes as the 4th tuple element.
CallerDictChoices ==
    {<<>>,
     << <<CONTENT_TYPE_LOWER, TEXT_HTML>> >>,
     << <<X_CONTENT_TYPE_OPTIONS, NOSNIFF>> >>,
     << <<X_CUSTOM, NOSNIFF>> >>}

SomeBytes == <<104, 105>>    \* b"hi"

\* File items for the constructor: every shape, with and without a type.
CtorFileItems ==
    {FileItem(<<102>>, "t2", Some(A_TXT), None, 0, MemBytes(SomeBytes)),
     FileItem(<<102>>, "t3", Some(B_PNG), Some(TEXT_PLAIN), 0, MemBytes(SomeBytes)),
     FileItem(<<102>>, "t4", Some(A_TXT), None, 1, MemBytes(SomeBytes)),
     FileItem(<<102>>, "t4", Some(B_PNG), Some(TEXT_HTML), 1, MemBytes(SomeBytes)),
     FileItem(<<102>>, "t4", None, None, 1, MemBytes(SomeBytes)),
     FileItem(<<102>>, "bare", None, None, 0,
              Reader("BytesIO", FALSE, TRUE, SomeBytes, 0, Some(<<47, 100, 47>> \o A_TXT))),
     FileItem(<<102>>, "bare", None, None, 0,
              Reader("StringIO", TRUE, TRUE, <<104, 105>>, 0, None))}

OrderFileItems ==
    {FileItem(<<102>>, "t2", Some(A_TXT), None, 0, MemBytes(SomeBytes)),
     FileItem(<<103>>, "t2", None, None, 0, MemBytes(<<>>)),
     FileItem(<<104>>, "bare", None, None, 0,
              Reader("TextIOWrapper", TRUE, TRUE, <<104, 105>>, 0, None))}

FileLists(items, n) == UNION {[1..m -> items] : m \in 0..n}

SourcesOf(fs) == [k \in 1..Len(fs) |-> fs[k].src]

\* ------------------------------------------------------- idle variables

EscIdle == value = <<>> /\ param = None
CtorIdle ==
    /\ data = <<>> /\ files = <<>> /\ ctorLog = <<>> /\ callerDicts = <<>>
    /\ ctor = [at |-> "done", i |-> 1, j |-> 1]
MsgIdle ==
    /\ boundary = <<>>
    /\ fields = [m \in Inst |-> <<>>]
    /\ dicts = [m \in Inst |-> <<>>]
    /\ srcs = [m \in Inst |-> <<>>]
RunIdle ==
    /\ pc = [m \in Inst |-> [at |-> "start", i |-> 0]]
    /\ out = [m \in Inst |-> <<>>]
    /\ lenResult = [m \in Inst |-> None]
    /\ hdrResult = [m \in Inst |-> None]
CacheIdle == renders = <<>> /\ mutated = <<>>

\* ------------------------------------------- specification: construction

\* One next() of _iter_fields on message 1, as MultipartStream.__init__ runs it.
IterFields ==
    /\ ctor.at \notin {"done", "raised"}
    /\ LET st == IterFieldsStep([c |-> ctor, fields |-> fields[1], dicts |-> dicts[1],
                                 log |-> ctorLog], data, files, srcs[1])
       IN /\ ctor' = st.c
          /\ fields' = [fields EXCEPT ![1] = st.fields]
          /\ dicts' = [dicts EXCEPT ![1] = st.dicts]
          /\ ctorLog' = st.log
    /\ UNCHANGED <<data, files, callerDicts, boundary, srcs>>
    /\ UNCHANGED <<escVars, runVars, cacheVars>>

CtorInit(d, fs, cd) ==
    /\ data = d /\ files = fs /\ callerDicts = cd
    /\ ctor = [at |-> "data", i |-> 1, j |-> 1]
    /\ ctorLog = <<>>
    /\ boundary = <<88, 89>>
    /\ fields = [m \in Inst |-> <<>>]
    /\ dicts = [m \in Inst |-> IF m = 1 THEN cd ELSE <<>>]
    /\ srcs = [m \in Inst |-> IF m = 1 THEN SourcesOf(fs) ELSE <<>>]
    /\ EscIdle /\ RunIdle /\ CacheIdle

\* Field order: many mappings, few files.
InitOrder ==
    \E d \in DataMappings(MaxData), fs \in FileLists(OrderFileItems, MaxFiles) :
        CtorInit(d, fs, << <<>> >>)

NextOrder == IterFields
SpecOrder == InitOrder /\ [][NextOrder]_vars

\* File fields: every shape against every caller dict.
InitFile ==
    \E fs \in FileLists(CtorFileItems, MaxFiles), cd \in CallerDictChoices :
        CtorInit(<<>>, fs, <<cd>>)

NextFile == IterFields
SpecFile == InitFile /\ [][NextFile]_vars

\* ---------------------------------------------------- claims: construction

\* The number of fields one entry of the data mapping expands to.
EntrySize(v) == IF v.t = "list" THEN Len(v.items) ELSE 1

RECURSIVE EntryOffset(_, _)
EntryOffset(d, i) ==
    IF i <= 1 THEN 0 ELSE EntryOffset(d, i - 1) + EntrySize(d[i - 1][2])

\* C3: once construction has finished, the field list holds, for each entry of
\* the data mapping in iteration order, one scalar field per element (in element
\* order) of a list value and one for a scalar value, then one file field per
\* item of the file list in its order, and nothing else.
C3_FieldOrder ==
    ctor.at = "done" =>
        LET n == EntryOffset(data, Len(data) + 1)
        IN /\ Len(fields[1]) = n + Len(files)
           /\ \A i \in 1..Len(data) : \A j \in 1..EntrySize(data[i][2]) :
                LET f == fields[1][EntryOffset(data, i) + j]
                    item == IF data[i][2].t = "list" THEN data[i][2].items[j]
                            ELSE data[i][2]
                IN /\ f.type = "DataField"
                   /\ f.name = data[i][1]
                   /\ f.value = (IF item.t = "bytes" THEN item
                                 ELSE primitive_value_to_str(item))
           /\ \A k \in 1..Len(files) :
                LET f == fields[1][n + k]
                IN f.type = "FileField" /\ f.name = files[k].name /\ f.file = k

\* A list of two elements, then another entry, then two different files.
C3_Witness ==
    /\ ctor.at = "done"
    /\ Len(data) = 2 /\ data[1][2].t = "list" /\ Len(data[1][2].items) = 2
    /\ Len(files) = 2 /\ files[1].name # files[2].name
    /\ Len(fields[1]) = 5

\* The Content-Type the construction resolves: the explicit one, else the one
\* guessed from a non-empty filename, else none.
ResolvedContentType(e) ==
    IF e.fv.shape \in {"t3", "t4"} /\ e.fv.content_type # None THEN e.fv.content_type
    ELSE IF e.filename # None /\ e.filename[1] # <<>>
         THEN (IF guess_type(e.filename[1]) # None THEN guess_type(e.filename[1])
               ELSE Some(OCTET_STREAM))
    ELSE None

\* C7: a constructed file field's headers are the supplied ones with
\* Content-Type: <resolved type> added, and exactly the supplied ones if and
\* only if no type resolves or a supplied key equals Content-Type ignoring case.
C7_ContentTypeResolution ==
    \A k \in 1..Len(ctorLog) :
        LET e == ctorLog[k]
            resolved == ResolvedContentType(e)
            supplied == \E h \in 1..Len(e.before) : Lower(e.before[h][1]) = CONTENT_TYPE_LOWER
        IN e.ok =>
             e.after = (IF supplied \/ resolved = None THEN e.before
                        ELSE Append(e.before, <<CONTENT_TYPE, resolved[1]>>))

\* The headers FileField k would have had, built first from the caller's dicts.
HeadersIfBuiltFirst(k) ==
    LET r == FileField(ctorLog[k].name, ctorLog[k].fv, callerDicts, srcs[1])
    IN r.dicts[r.field.headers]

\* C10: no FileField construction writes the caller's header dict, and every
\* file field has the headers it would have had if it had been built first.
C10_CallerHeadersUntouched ==
    /\ \A h \in 1..Len(callerDicts) : dicts[1][h] = callerDicts[h]
    /\ \A k \in 1..Len(ctorLog) :
         ctorLog[k].ok => ctorLog[k].after = HeadersIfBuiltFirst(k)

\* --------------------------------------------- specification: escaping

\* A control character, ESC, the double quote, "%", "2", the backslash, and
\* a character that takes two bytes.
EscAlphabet == {10, ESC, DQUOTE, 37, 50, BACKSLASH, 233}

\* The call _format_form_param("name", value).
FormatFormParam ==
    /\ param = None
    /\ param' = Some(_format_form_param(NAME, value))
    /\ UNCHANGED value
    /\ UNCHANGED <<ctorVars, msgVars, runVars, cacheVars>>

InitEsc ==
    /\ value \in StringsUpTo(EscAlphabet, MaxStrLen)
    /\ param = None
    /\ CtorIdle /\ MsgIdle /\ RunIdle /\ CacheIdle

NextEsc == FormatFormParam
SpecEsc == InitEsc /\ [][NextEsc]_vars

\* A receiver's decoding: UTF-8, then name="...", then the table read backwards.
RECURSIVE DecodeUtf8(_)
DecodeUtf8(b) ==
    IF b = <<>> THEN <<>>
    ELSE IF b[1] < 128 THEN <<b[1]>> \o DecodeUtf8(Tail(b))
    ELSE <<(b[1] - 192) * 64 + (b[2] - 128)>> \o DecodeUtf8(Tail(Tail(b)))

HexValue(d) ==
    IF d >= 48 /\ d <= 57 THEN d - 48 ELSE IF d >= 65 /\ d <= 70 THEN d - 55 ELSE 0 - 1

\* Whether the two characters are the "XX" of a code the table produces.
IsEscapeCode(a, b) ==
    /\ HexValue(a) >= 0 /\ HexValue(b) >= 0
    /\ LET c == 16 * HexValue(a) + HexValue(b)
       IN c = DQUOTE \/ (c <= LAST_CONTROL /\ c # ESC)

RECURSIVE Unescape(_)
Unescape(s) ==
    IF s = <<>> THEN <<>>
    ELSE IF Len(s) >= 3 /\ s[1] = 37 /\ IsEscapeCode(s[2], s[3])
         THEN <<16 * HexValue(s[2]) + HexValue(s[3])>> \o Unescape(SubSeq(s, 4, Len(s)))
    ELSE IF Len(s) >= 2 /\ s[1] = BACKSLASH /\ s[2] = BACKSLASH
         THEN <<BACKSLASH>> \o Unescape(SubSeq(s, 3, Len(s)))
    ELSE <<s[1]>> \o Unescape(Tail(s))

\* The value of the parameter name="...".
DecodeParam(b) ==
    LET s == DecodeUtf8(b)
    IN Unescape(SubSeq(s, Len(NAME) + 3, Len(s) - 1))

\* The string holds "%" followed by the two digits of a code the table produces.
HoldsEscapeCode(s) ==
    \E k \in 1..(Len(s) - 2) : s[k] = 37 /\ IsEscapeCode(s[k + 1], s[k + 2])

\* C8 as stated: every value decodes back from its rendered parameter, and no
\* other string renders to the same bytes.
C8_RoundTrip ==
    param # None =>
        /\ DecodeParam(param[1]) = value
        /\ \A t \in StringsUpTo(EscAlphabet, 2) :
             _format_form_param(NAME, t) = param[1] => t = value

\* C8 amended: the same, for the values that do not themselves hold "%"
\* followed by the two digits of an escaped code point.
C8_RoundTripWithoutCodes ==
    (param # None /\ ~HoldsEscapeCode(value)) =>
        /\ DecodeParam(param[1]) = value
        /\ \A t \in StringsUpTo(EscAlphabet, 2) :
             (~HoldsEscapeCode(t) /\ _format_form_param(NAME, t) = param[1]) => t = value

\* A value with a quote, a backslash and a control character has been rendered.
C8_Witness ==
    /\ param # None
    /\ \E i, j, k \in 1..Len(value) :
         value[i] = DQUOTE /\ value[j] = BACKSLASH /\ value[k] = 10

\* ------------------------------------------------- rendering a field's body
(* FileField.render_data, FileField.arender_data and the data chunk of      *)
(* DataField.render are generators.  BodyNext is one next() on the body of  *)
(* field f: `first` says the generator has not run yet.  It gives [kind,    *)
(* bytes, text, field, src]: kind "chunk" (a chunk is yielded; text says    *)
(* the source produced it as str), "end" (the generator returns) or "raise" *)
(* (TypeError), with the field and its source as the call leaves them.      *)

BodyResult(kind, bytes, text, f, src) ==
    [kind |-> kind, bytes |-> bytes, text |-> text, field |-> f, src |-> src]

\* The loop `chunk = read(CHUNK_SIZE); while chunk: yield to_bytes(chunk)`.
ReadLoop(f, src) ==
    LET r == Read(src, CHUNK_SIZE)
    IN IF r.chunk.v # <<>>
       THEN BodyResult("chunk", to_bytes(r.chunk), r.chunk.t = "str", f, r.src)
       ELSE BodyResult("end", <<>>, FALSE, f, r.src)

\* FileField.render_data
render_data(f, src, first) ==
    IF IsAsyncIterable(src) THEN BodyResult("raise", <<>>, FALSE, f, src)
    ELSE IF IsInMemory(src)
    THEN (IF first
          THEN BodyResult("chunk", to_bytes([t |-> src.kind, v |-> src.content]),
                          FALSE, f, src)
          ELSE BodyResult("end", <<>>, FALSE, f, src))
    ELSE IF first
    THEN ReadLoop(f, IF src.seekable THEN [src EXCEPT !.pos = 0] ELSE src)
    ELSE ReadLoop(f, src)

\* A faulty variant: the delegated path reads the source without rewinding it.
arender_data_NoSeek(f, src, first) ==
    IF ~IsAsyncIterable(src)
    THEN (IF IsInMemory(src) THEN render_data(f, src, first) ELSE ReadLoop(f, src))
    ELSE IF src.pos < Len(src.chunks)
    THEN LET achunk == src.chunks[src.pos + 1]
         IN IF achunk.t # "bytes"
            THEN BodyResult("raise", <<>>, FALSE, f, [src EXCEPT !.pos = @ + 1])
            ELSE BodyResult("chunk", achunk.v, FALSE, f, [src EXCEPT !.pos = @ + 1])
    ELSE BodyResult("end", <<>>, FALSE, f, src)

\* FileField.arender_data
arender_data(f, src, first) ==
    IF ~IsAsyncIterable(src) THEN render_data(f, src, first)
    ELSE IF src.pos < Len(src.chunks)
    THEN LET achunk == src.chunks[src.pos + 1]
         IN IF achunk.t # "bytes"
            THEN BodyResult("raise", <<>>, FALSE, f, [src EXCEPT !.pos = @ + 1])
            ELSE BodyResult("chunk", achunk.v, FALSE, f, [src EXCEPT !.pos = @ + 1])
    ELSE BodyResult("end", <<>>, FALSE, f, src)

\* The body of field f in a run of the given mode: what follows the headers in
\* DataField.render, FileField.render and FileField.arender.
BodyNext(mode, f, ss, first) ==
    IF f.type = "DataField"
    THEN (IF first
          THEN LET g == DataRenderData(f)
               IN BodyResult("chunk", g.data_[1], FALSE, g, None)
          ELSE BodyResult("end", <<>>, FALSE, f, None))
    ELSE IF mode = "async" THEN arender_data(f, ss[f.file], first)
    ELSE render_data(f, ss[f.file], first)

\* ------------------------------------- iter_chunks and aiter_chunks
(* One next() of the chunk generator of a message: from the position p =   *)
(* [at, i] (the yield it stands at: "start", then "open", "hdr", "body",   *)
(* "crlf" of field i, "close"; "done" and "raised" once it has ended) to   *)
(* the next yield.  The chunk yielded is recorded with the yield that made *)
(* it (tag, field).                                                        *)

Chunk(tag, i, bytes, text) == [tag |-> tag, field |-> i, bytes |-> bytes, text |-> text]

DASHES == <<45, 45>>
OpenDelimiter(bnd) == DASHES \o bnd \o CRLF             \* b"--%s\r\n"
CloseDelimiter(bnd) == DASHES \o bnd \o DASHES \o CRLF  \* b"--%s--\r\n"

StepResult(p, flds, ss, emit) == [pc |-> p, fields |-> flds, srcs |-> ss, emit |-> emit]

\* The top of `for field in self.fields`, for field i, or the closing delimiter.
LoopTop(i, flds, ss, bnd) ==
    IF i <= Len(flds)
    THEN StepResult([at |-> "open", i |-> i], flds, ss,
                    <<Chunk("open", i, OpenDelimiter(bnd), FALSE)>>)
    ELSE StepResult([at |-> "close", i |-> i], flds, ss,
                    <<Chunk("close", i, CloseDelimiter(bnd), FALSE)>>)

\* A faulty variant: `yield b"\r\n"` is missing, the loop goes on to the next field.
AfterHeaders_NoCrlf(mode, i, p, flds, ss, bnd) ==
    LET r == BodyNext(mode, flds[i], ss, p.at = "hdr")
        flds2 == [flds EXCEPT ![i] = r.field]
        ss2 == IF flds[i].type = "FileField" THEN [ss EXCEPT ![flds[i].file] = r.src]
               ELSE ss
    IN IF r.kind = "chunk"
       THEN StepResult([at |-> "body", i |-> i], flds2, ss2,
                       <<Chunk("body", i, r.bytes, r.text)>>)
       ELSE IF r.kind = "end" THEN LoopTop(i + 1, flds2, ss2, bnd)
       ELSE StepResult([at |-> "raised", i |-> i], flds2, ss2, <<>>)

\* After the headers of field i, or one of its body chunks: the next body chunk,
\* or `yield b"\r\n"` when the field's generator has ended.
AfterHeaders(mode, i, p, flds, ss, bnd) ==
    LET r == BodyNext(mode, flds[i], ss, p.at = "hdr")
        flds2 == [flds EXCEPT ![i] = r.field]
        ss2 == IF flds[i].type = "FileField" THEN [ss EXCEPT ![flds[i].file] = r.src]
               ELSE ss
    IN IF r.kind = "chunk"
       THEN StepResult([at |-> "body", i |-> i], flds2, ss2,
                       <<Chunk("body", i, r.bytes, r.text)>>)
       ELSE IF r.kind = "end"
       THEN StepResult([at |-> "crlf", i |-> i], flds2, ss2, <<Chunk("crlf", i, CRLF, FALSE)>>)
       ELSE StepResult([at |-> "raised", i |-> i], flds2, ss2, <<>>)

\* iter_chunks (mode "sync") and aiter_chunks (mode "async").
ChunkStep(mode, p, flds, ss, ds, bnd) ==
    IF p.at = "start" THEN LoopTop(1, flds, ss, bnd)
    ELSE IF p.at = "open"
    THEN LET f == RenderHeaders(flds[p.i], ds)
         IN StepResult([at |-> "hdr", i |-> p.i], [flds EXCEPT ![p.i] = f], ss,
                       <<Chunk("hdr", p.i, f.headers_[1], FALSE)>>)
    ELSE IF p.at \in {"hdr", "body"} THEN AfterHeaders(mode, p.i, p, flds, ss, bnd)
    ELSE IF p.at = "crlf" THEN LoopTop(p.i + 1, flds, ss, bnd)
    ELSE StepResult([at |-> "done", i |-> p.i], flds, ss, <<>>)

\* ------------------------------------------------- get_content_length

\* DataField.get_length and FileField.get_length: [len, field], len being None
\* or Some(n), the field with the caches the call filled.
get_length(f, ds, ss) ==
    IF f.type = "DataField"
    THEN LET g == DataRenderData(DataRenderHeaders(f))
         IN [len |-> Some(Len(g.headers_[1]) + Len(g.data_[1])), field |-> g]
    ELSE LET g == FileRenderHeaders(f, ds[f.headers])
             src == ss[f.file]
         IN IF IsInMemory(src)
            THEN [len |-> Some(Len(g.headers_[1])
                               + Len(to_bytes([t |-> src.kind, v |-> src.content]))),
                  field |-> g]
            ELSE LET file_length == peek_filelike_length(src)
                 IN IF file_length = None THEN [len |-> None, field |-> g]
                    ELSE [len |-> Some(Len(g.headers_[1]) + file_length[1]), field |-> g]

\* len(b"--{boundary}--\r\n"), line 316.
ClosingLength(boundary_length) == 2 + boundary_length + 4

\* The loop of get_content_length from field i on, `length` being the sum so
\* far: [len, fields].
RECURSIVE ContentLengthLoop(_, _, _, _, _, _)
ContentLengthLoop(i, length, flds, ds, ss, boundary_length) ==
    IF i > Len(flds) THEN [len |-> Some(length + ClosingLength(boundary_length)), fields |-> flds]
    ELSE LET r == get_length(flds[i], ds, ss)
             flds2 == [flds EXCEPT ![i] = r.field]
         IN IF r.len = None THEN [len |-> None, fields |-> flds2]
            ELSE ContentLengthLoop(i + 1, length + 2 + boundary_length + 2 + r.len[1] + 2,
                                   flds2, ds, ss, boundary_length)

get_content_length(flds, ds, ss, bnd) == ContentLengthLoop(1, 0, flds, ds, ss, Len(bnd))

\* ------------------------------------------------------------ get_headers

MULTIPART_FORM_DATA ==    \* "multipart/form-data; boundary="
    <<109, 117, 108, 116, 105, 112, 97, 114, 116, 47, 102, 111, 114, 109, 45, 100,
      97, 116, 97, 59, 32, 98, 111, 117, 110, 100, 97, 114, 121, 61>>
CHUNKED == <<99, 104, 117, 110, 107, 101, 100>>

\* self.content_type
content_type_of(bnd) == MULTIPART_FORM_DATA \o bnd

\* A faulty variant: Content-Length is always given, 0 standing for an unknown length.
HeadersFor_AlwaysLength(content_length, bnd) ==
    << <<"Content-Length", IntToStr(IF content_length = None THEN 0 ELSE content_length[1])>>,
       <<"Content-Type", content_type_of(bnd)>> >>

\* The dict get_headers returns, as its items in order.
HeadersFor(content_length, bnd) ==
    IF content_length = None
    THEN << <<"Transfer-Encoding", CHUNKED>>, <<"Content-Type", content_type_of(bnd)>> >>
    ELSE << <<"Content-Length", IntToStr(content_length[1])>>,
            <<"Content-Type", content_type_of(bnd)>> >>

\* ------------------------------------------- specification: the stream
(* Two messages constructed from the same arguments, each with its own     *)
(* sources: message 1 is read with iter_chunks, message 2 with             *)
(* aiter_chunks.                                                            *)

\* The bytes a file object holds.
FileBytes == [k \in 1..MaxContent |-> 64 + k]

\* The file items of a stream: in-memory text, a seekable file at its start and
\* past it, an unseekable binary reader, an unseekable reader that yields text
\* (no TextIOBase), and async producers of bytes and of text.
StreamFileItems ==
    {FileItem(<<102>>, "t2", Some(A_TXT), None, 0, MemStr(<<104, 233>>)),
     FileItem(<<102>>, "t2", None, None, 0,
              Reader("duck", FALSE, FALSE, FileBytes, 0, None)),
     FileItem(<<102>>, "t2", None, None, 0,
              Reader("duck", TRUE, FALSE, <<104, 233, 105>>, 0, None)),
     FileItem(<<102>>, "t3", None, Some(TEXT_PLAIN), 0,
              AsyncSource(<<Bytes(<<65, 66>>), Bytes(<<67>>)>>)),
     FileItem(<<102>>, "t3", None, Some(TEXT_PLAIN), 0,
              AsyncSource(<<Str(<<104, 105>>)>>))}
    \cup {FileItem(<<102>>, "bare", None, None, 0,
                   Reader("BytesIO", FALSE, TRUE, FileBytes, p0, None)) : p0 \in 0..1}

StreamData == {<<>>, << <<FieldName(1), Str(<<120, 233>>)>> >>}

\* MultipartStream.__init__(data, files, boundary) for both messages.
StreamInit(d, fs) ==
    LET st == ListIterFields(CtorStart(<<>>), d, fs, SourcesOf(fs))
    IN /\ st.c.at = "done"
       /\ boundary = <<88, 89>>
       /\ fields = [m \in Inst |-> st.fields]
       /\ dicts = [m \in Inst |-> st.dicts]
       /\ srcs = [m \in Inst |-> SourcesOf(fs)]

\* One next() on iter_chunks (mode "sync") or aiter_chunks ("async") of message m.
NextChunk(mode, m) ==
    /\ pc[m].at \notin {"done", "raised"}
    /\ LET r == ChunkStep(mode, pc[m], fields[m], srcs[m], dicts[m], boundary)
       IN /\ pc' = [pc EXCEPT ![m] = r.pc]
          /\ fields' = [fields EXCEPT ![m] = r.fields]
          /\ srcs' = [srcs EXCEPT ![m] = r.srcs]
          /\ out' = [out EXCEPT ![m] = @ \o r.emit]
    /\ UNCHANGED <<boundary, dicts, lenResult, hdrResult>>
    /\ UNCHANGED <<escVars, ctorVars, cacheVars>>

IterChunks(m) == NextChunk("sync", m)
AiterChunks(m) == NextChunk("async", m)

\* get_content_length() on message m.
GetContentLength(m) ==
    /\ LET r == get_content_length(fields[m], dicts[m], srcs[m], boundary)
       IN /\ lenResult' = [lenResult EXCEPT ![m] = Some(r.len)]
          /\ fields' = [fields EXCEPT ![m] = r.fields]
    /\ UNCHANGED <<boundary, dicts, srcs, pc, out, hdrResult>>
    /\ UNCHANGED <<escVars, ctorVars, cacheVars>>

\* get_headers() on message m.
GetHeaders(m) ==
    /\ LET r == get_content_length(fields[m], dicts[m], srcs[m], boundary)
       IN /\ hdrResult' = [hdrResult EXCEPT ![m] = Some(HeadersFor(r.len, boundary))]
          /\ fields' = [fields EXCEPT ![m] = r.fields]
    /\ UNCHANGED <<boundary, dicts, srcs, pc, out, lenResult>>
    /\ UNCHANGED <<escVars, ctorVars, cacheVars>>

Init ==
    /\ \E d \in StreamData, fs \in FileLists(StreamFileItems, MaxFields) :
         /\ Len(d) + Len(fs) <= MaxFields
         /\ StreamInit(d, fs)
    /\ EscIdle /\ CtorIdle /\ RunIdle /\ CacheIdle

Next ==
    \/ IterChunks(1)
    \/ GetContentLength(1)
    \/ GetHeaders(1)

Spec == Init /\ [][Next]_vars

\* ------------------------------------- specification: the two modes
(* Message 1 is read with iter_chunks and message 2 with aiter_chunks, in  *)
(* any interleaving; the length of message 2 may be asked at any point.    *)

Ended(m) == pc[m].at \in {"done", "raised"}

NextModes ==
    \/ IterChunks(1)
    \/ AiterChunks(2)
    \/ GetContentLength(2)

SpecModes == Init /\ [][NextModes]_vars

\* ---------------------------------------------------- claims: the stream

RECURSIVE TotalBytes(_)
TotalBytes(chunks) ==
    IF chunks = <<>> THEN 0 ELSE Len(Head(chunks).bytes) + TotalBytes(Tail(chunks))

\* C1: when get_content_length() has returned a number and iter_chunks() has
\* run to its end on the same message, the number is the total size of the
\* chunks.
C1_LengthEqualsBytes ==
    (pc[1].at = "done" /\ lenResult[1] # None /\ lenResult[1][1] # None) =>
        lenResult[1][1][1] = TotalBytes(out[1])

\* Whether chunk c may directly follow chunk b in a message of n fields.
MayFollow(b, c, n) ==
    IF b.tag = "open" THEN c.tag = "hdr" /\ c.field = b.field
    ELSE IF b.tag \in {"hdr", "body"} THEN c.tag \in {"body", "crlf"} /\ c.field = b.field
    ELSE IF b.tag = "crlf"
         THEN IF b.field < n THEN c.tag = "open" /\ c.field = b.field + 1
              ELSE c.tag = "close"
    ELSE FALSE

\* The chunks o, yielded so far by a message of fields flds, are framed in order.
Framed(o, flds, bnd) ==
    /\ o # <<>> =>
         IF flds = <<>> THEN o[1].tag = "close" ELSE o[1].tag = "open" /\ o[1].field = 1
    /\ \A k \in 2..Len(o) : MayFollow(o[k - 1], o[k], Len(flds))
    /\ \A k \in 1..Len(o) :
         /\ o[k].tag = "open" => o[k].bytes = DASHES \o bnd \o CRLF
         /\ o[k].tag = "crlf" => o[k].bytes = CRLF
         /\ o[k].tag = "close" => o[k].bytes = DASHES \o bnd \o DASHES \o CRLF
         /\ o[k].tag = "hdr" => Some(o[k].bytes) = flds[o[k].field].headers_

\* C2: in iter_chunks (message 1) and aiter_chunks (message 2), each field, in
\* field order, gives its opening delimiter, its header chunk, its body chunks
\* and CRLF, with no chunk of another field in between; the closing delimiter
\* comes once, after the last field's CRLF, and ends the run.
C2_ChunkOrder ==
    \A m \in Inst :
        /\ Framed(out[m], fields[m], boundary)
        /\ pc[m].at = "done" => (out[m] # <<>> /\ out[m][Len(out[m])].tag = "close")

\* Both runs have ended on a message of two fields, one with two body chunks.
C2_Witness ==
    /\ pc[1].at = "done" /\ pc[2].at = "done"
    /\ Len(fields[1]) = 2
    /\ \E k \in 2..Len(out[2]) :
         out[2][k].tag = "body" /\ out[2][k - 1].tag = "body" /\ out[2][k].field = 1

\* int(s), for decimal digits.
RECURSIVE StrToInt(_)
StrToInt(s) ==
    IF s = <<>> THEN 0 ELSE 10 * StrToInt(SubSeq(s, 1, Len(s) - 1)) + (s[Len(s)] - 48)

HasHeader(h, key) == \E j \in 1..Len(h) : h[j][1] = key
HeaderValue(h, key) == h[CHOOSE j \in 1..Len(h) : h[j][1] = key][2]

\* Some file field of the message has a length that cannot be probed.
SomeLengthUnknown(flds, ss) ==
    \E i \in 1..Len(flds) :
        /\ flds[i].type = "FileField"
        /\ ~IsInMemory(ss[flds[i].file])
        /\ ~(ss[flds[i].file].kind = "reader" /\ ss[flds[i].file].seekable)

\* The headers h agree with the length of the message in the state given.
HeadersAgree(h, flds, ds, ss, bnd) ==
    LET content_length == get_content_length(flds, ds, ss, bnd).len
    IN /\ HasHeader(h, "Content-Type")
       /\ HasHeader(h, "Content-Length") # HasHeader(h, "Transfer-Encoding")
       /\ IF SomeLengthUnknown(flds, ss)
          THEN /\ content_length = None
               /\ HasHeader(h, "Transfer-Encoding")
               /\ HeaderValue(h, "Transfer-Encoding") = CHUNKED
          ELSE /\ content_length # None
               /\ HasHeader(h, "Content-Length")
               /\ StrToInt(HeaderValue(h, "Content-Length")) = content_length[1]

\* C4: what get_headers() returns holds Content-Type and exactly one of
\* Content-Length and Transfer-Encoding: "chunked", with get_content_length()
\* being None, if some file field's length is unknown; else Content-Length,
\* the decimal of get_content_length().
C4_HeadersFollowLength ==
    [][\A m \in Inst :
         hdrResult'[m] # hdrResult[m] =>
             HeadersAgree(hdrResult'[m][1], fields'[m], dicts'[m], srcs'[m], boundary')]_vars

\* get_headers() has answered "chunked" for a message whose first field has a
\* known length and whose second has not.
C4_Witness ==
    /\ hdrResult[1] # None /\ HasHeader(hdrResult[1][1], "Transfer-Encoding")
    /\ Len(fields[1]) = 2
    /\ ~SomeLengthUnknown(SubSeq(fields[1], 1, 1), srcs[1])
    /\ SomeLengthUnknown(fields[1], srcs[1])

\* C6: no body chunk is made from text that a file source produced.
C6_NoBodyFromText ==
    \A m \in Inst : \A k \in 1..Len(out[m]) : out[m][k].tag = "body" => ~out[m][k].text

NoAsyncSource(m) ==
    \A i \in 1..Len(fields[m]) :
        fields[m][i].type = "FileField" => ~IsAsyncIterable(srcs[m][fields[m][i].file])

RECURSIVE Drain(_, _, _, _)
Drain(f, src, first, acc) ==
    LET r == render_data(f, src, first)
    IN IF r.kind = "chunk" THEN Drain(f, r.src, FALSE, acc \o r.bytes)
       ELSE [bytes |-> acc, src |-> r.src]

Calls(i, op) == Len(SelectSeq(renders[i], LAMBDA e : e.op = op))

\* field.render_headers(), for field i of message 1.
CallRenderHeaders(i) ==
    /\ Calls(i, "headers") < MaxRenders
    /\ LET f == RenderHeaders(fields[1][i], dicts[1])
       IN /\ fields' = [fields EXCEPT ![1][i] = f]
          /\ renders' = [renders EXCEPT ![i] =
                           Append(@, [op |-> "headers", bytes |-> f.headers_[1]])]
    /\ UNCHANGED <<boundary, dicts, srcs, mutated>>
    /\ UNCHANGED <<escVars, ctorVars, runVars>>

\* field.render_data(), for field i of message 1 (a FileField's generator is
\* run to its end).
CallRenderData(i) ==
    /\ Calls(i, "data") < MaxRenders
    /\ IF fields[1][i].type = "DataField"
       THEN LET f == DataRenderData(fields[1][i])
            IN /\ fields' = [fields EXCEPT ![1][i] = f]
               /\ renders' = [renders EXCEPT ![i] =
                                Append(@, [op |-> "data", bytes |-> f.data_[1]])]
               /\ UNCHANGED srcs
       ELSE LET r == Drain(fields[1][i], srcs[1][fields[1][i].file], TRUE, <<>>)
            IN /\ srcs' = [srcs EXCEPT ![1][fields[1][i].file] = r.src]
               /\ renders' = [renders EXCEPT ![i] =
                                Append(@, [op |-> "data", bytes |-> r.bytes])]
               /\ UNCHANGED fields
    /\ UNCHANGED <<boundary, dicts, mutated>>
    /\ UNCHANGED <<escVars, ctorVars, runVars>>

\* The caller writes to what field i is rendered from: its name, its value (a
\* DataField), its headers dict or the content of its source (a FileField).
Mutate(i) ==
    /\ ~mutated[i]
    /\ renders[i] # <<>>
    /\ mutated' = [mutated EXCEPT ![i] = TRUE]
    /\ renders' = [renders EXCEPT ![i] = Append(@, [op |-> "write", bytes |-> <<>>])]
    /\ \/ /\ fields' = [fields EXCEPT ![1][i].name = <<122>>]
          /\ UNCHANGED <<dicts, srcs>>
       \/ /\ fields[1][i].type = "DataField"
          /\ fields' = [fields EXCEPT ![1][i].value = Str(<<122>>)]
          /\ UNCHANGED <<dicts, srcs>>
       \/ /\ fields[1][i].type = "FileField"
          /\ dicts' = [dicts EXCEPT ![1][fields[1][i].headers] =
                         DictSet(@, X_CUSTOM, NOSNIFF)]
          /\ UNCHANGED <<fields, srcs>>
       \/ /\ fields[1][i].type = "FileField"
          /\ srcs' = [srcs EXCEPT ![1][fields[1][i].file].content = <<90>>,
                                  ![1][fields[1][i].file].pos = 0]
          /\ UNCHANGED <<fields, dicts>>
    /\ UNCHANGED boundary
    /\ UNCHANGED <<escVars, ctorVars, runVars>>

CacheFileItems ==
    {FileItem(<<102>>, "t2", Some(A_TXT), None, 0, MemStr(<<104, 233>>))}
    \cup {FileItem(<<102>>, "bare", None, None, 0,
                   Reader("BytesIO", FALSE, TRUE, FileBytes, p0, None)) : p0 \in 0..1}

InitCache ==
    /\ \E d \in StreamData, fs \in FileLists(CacheFileItems, 1) :
         /\ Len(d) + Len(fs) = 1
         /\ StreamInit(d, fs)
    /\ renders = <<<<>>>>
    /\ mutated = <<FALSE>>
    /\ EscIdle /\ CtorIdle /\ RunIdle

NextCache ==
    \/ CallRenderHeaders(1)
    \/ CallRenderData(1)
    \/ Mutate(1)

SpecCache == InitCache /\ [][NextCache]_vars

\* C5 as stated: any two calls of the same render method of a field returned
\* the same bytes.
C5_RendersIdentical ==
    \A i \in 1..Len(renders) : \A a, b \in 1..Len(renders[i]) :
        renders[i][a].op = renders[i][b].op => renders[i][a].bytes = renders[i][b].bytes

\* C5 amended: the same, for render_headers of either field class and for
\* render_data of a DataField.
C5_CachedRendersIdentical ==
    \A i \in 1..Len(renders) : \A a, b \in 1..Len(renders[i]) :
        (/\ renders[i][a].op = renders[i][b].op
         /\ (renders[i][a].op = "headers" \/ fields[1][i].type = "DataField"))
        => renders[i][a].bytes = renders[i][b].bytes

\* A DataField's value was written between two calls of its render_data.
C5_Witness ==
    /\ fields[1][1].type = "DataField"
    /\ fields[1][1].value = Str(<<122>>)
    /\ \E a, b, c \in 1..Len(renders[1]) :
         /\ a < b /\ b < c
         /\ renders[1][a].op = "data" /\ renders[1][b].op = "write"
         /\ renders[1][c].op = "data"

====
